---- MODULE Spec2Model ----
(***************************************************************************)
(* A model of svelte-simple-markdown's core: the RuleList registry         *)
(* (rule-list.ts, the tail of default-rules.ts), the parser engine         *)
(* createParser / nestedParse / outerParse (parser.ts) and the reference   *)
(* link tables of the default rules (parseRef, def).                       *)
(*                                                                         *)
(* Source text is a sequence of tokens (one-character strings and a few    *)
(* multi-character lexemes such as a whole "[x]: /u" definition); rule     *)
(* objects are records whose recognizer, scorer and builder are selected   *)
(* by the fields rec, hasQ/qk/qb and build.                                *)
(***************************************************************************)
EXTENDS Integers, Sequences, FiniteSets, TLC

VARIABLES
    lists,      \* heap of RuleList arrays: lists[i] is the rule sequence of array object i
    regR,       \* the array object the registry variable R refers to
    regC,       \* the array object the variable C (= R.clone()) refers to, 0 before any clone
    lastOp,     \* the last registry call: its name, the variable it was made on (h)
                \* and whether it threw (err)
    rules,      \* createParser's `rules`: the object toRuleObject() returned
    ruleList,   \* createParser's `ruleList`: Object.keys(rules)
    defaultState, \* createParser's defaultState argument
    state,      \* the ParserState object the running parse threads through
    stack,      \* the nestedParse activations, innermost last
    heap,       \* the reference nodes parseRef built: heap[oid] = [target, title]
    status,     \* "idle", "running", "returned", or the error the call threw
    out,        \* the node sequence the last top-level call returned
    lastWalk,   \* the last rule walk: rules consulted, rule selected
    given       \* the arguments of the current top-level call, its number (call)
                \* and the number of heap nodes built before it (nodes0)

vars == << lists, regR, regC, lastOp, rules, ruleList, defaultState, state, stack,
           heap, status, out, lastWalk, given >>

regVars == << lists, regR, regC, lastOp >>
parserVars == << rules, ruleList, defaultState >>
parseVars == << state, stack, heap, status, out, lastWalk, given >>

(***************************************************************************)
(* Bounds                                                                  *)
(***************************************************************************)
MaxRules == 3      \* longest registry the registry specification builds
MaxWalkRules == 3  \* longest rule list of abstract rules a parser is built from
MaxLen == 3        \* longest document handed to a parser of the default rules
MaxCalls == 2      \* top-level calls made on one parser
MaxBlocks == 2     \* most blocks in a document of lists, tables and paragraphs
MaxDefBlocks == 5    \* most blocks in a document of definitions and references
MaxSpins == 2      \* loop iterations followed at one level that consume nothing

(***************************************************************************)
(* Small helpers on sequences                                              *)
(***************************************************************************)
Range(s) == { s[i] : i \in DOMAIN s }

Min2(a, b) == IF a <= b THEN a ELSE b

\* Array.prototype.splice(index, 0, x) with a 0-based index
SpliceIn(arr, index, x) ==
    SubSeq(arr, 1, index) \o << x >> \o SubSeq(arr, index + 1, Len(arr))

\* Array.prototype.splice(index, 1) with a 0-based index
SpliceOut(arr, index) ==
    SubSeq(arr, 1, index) \o SubSeq(arr, index + 2, Len(arr))

(***************************************************************************)
(* Rule objects.  id is the object's identity: two objects may carry the   *)
(* same name.                                                              *)
(*   scope  "inline" | "block" | "any"   the adapter wrapping the pattern  *)
(*   rec    the recognizer's pattern                                       *)
(*   ch     the token a "char"/"find" pattern looks for                    *)
(*   hasQ   whether the rule declares `quality`; its value is              *)
(*          qk * capture[0].length + qb                                    *)
(*   build  the builder (`parse`)                                          *)
(*   type   the type the builder sets on its node, "" when it sets none    *)
(***************************************************************************)
MkRule(id, name, scope, rec, ch, hasQ, qk, qb, build, type) ==
    [ id |-> id, name |-> name, scope |-> scope, rec |-> rec, ch |-> ch,
      hasQ |-> hasQ, qk |-> qk, qb |-> qb, build |-> build, type |-> type ]

NoRule == MkRule(0, "", "any", "never", "", FALSE, 0, 0, "leaf", "")

(***************************************************************************)
(* RuleList (class RuleList extends Array<ParserRule>)                     *)
(***************************************************************************)
\* this.findIndex((r) => r.name === rule): 0-based, -1 when no rule carries the name
findIndex(arr, name) ==
    IF \E i \in DOMAIN arr : arr[i].name = name
    THEN (CHOOSE i \in DOMAIN arr :
              /\ arr[i].name = name
              /\ \A j \in 1..(i - 1) : arr[j].name # name) - 1
    ELSE -1

\* insertBefore(rule, newRule): err is the thrown `Rule ${rule} not found`
insertBefore(arr, name, newRule) ==
    LET index == findIndex(arr, name) IN
    IF index = -1
    THEN [ err |-> TRUE, arr |-> arr ]
    ELSE [ err |-> FALSE, arr |-> SpliceIn(arr, index, newRule) ]

insertAfter(arr, name, newRule) ==
    LET index == findIndex(arr, name) IN
    IF index = -1
    THEN [ err |-> TRUE, arr |-> arr ]
    ELSE [ err |-> FALSE, arr |-> SpliceIn(arr, index + 1, newRule) ]

add(arr, rule) == Append(arr, rule)

\* this.find((r) => r.name === rule); NoRule stands for undefined
get(arr, name) ==
    LET index == findIndex(arr, name) IN
    IF index = -1 THEN NoRule ELSE arr[index + 1]

\* A remove without the check of the index: splice(-1, 1) drops the last rule
removeUnchecked(arr, name) ==
    LET index == findIndex(arr, name) IN
    IF index = -1
    THEN [ err |-> FALSE, arr |-> SubSeq(arr, 1, Len(arr) - 1) ]
    ELSE [ err |-> FALSE, arr |-> SpliceOut(arr, index) ]

remove(arr, name) ==
    LET index == findIndex(arr, name) IN
    IF index = -1
    THEN [ err |-> TRUE, arr |-> arr ]
    ELSE [ err |-> FALSE, arr |-> SpliceOut(arr, index) ]

\* A clone that hands back the receiver itself instead of a new array
cloneAlias(ls, a) == [ lists |-> ls, id |-> a ]

\* clone() = new RuleList(this): the constructor pushes the receiver's elements
\* into a fresh array object.  ls is the heap of arrays, a the receiver; the
\* fresh array takes slot 2, the array an earlier clone left there being
\* unreachable once C is assigned again.
clone(ls, a) == [ lists |-> << ls[1], ls[a] >>, id |-> 2 ]

(***************************************************************************)
(* toRuleObject() and Object.keys().  A JavaScript object is modelled as   *)
(* [keys, val]: keys in order of first assignment, val the property map.   *)
(***************************************************************************)
EmptyObject == [ keys |-> << >>, val |-> [ n \in {} |-> NoRule ] ]

\* result[rule.name] = rule
SetProp(obj, rule) ==
    [ keys |-> IF rule.name \in Range(obj.keys) THEN obj.keys
               ELSE Append(obj.keys, rule.name),
      val  |-> [ n \in Range(obj.keys) \cup { rule.name } |->
                    IF n = rule.name THEN rule ELSE obj.val[n] ] ]

RECURSIVE toRuleObjectFrom(_, _, _)
toRuleObjectFrom(arr, i, obj) ==
    IF i > Len(arr) THEN obj
    ELSE toRuleObjectFrom(arr, i + 1, SetProp(obj, arr[i]))

toRuleObject(arr) == toRuleObjectFrom(arr, 1, EmptyObject)

\* The names of the model that are canonical array indices, with their values.
\* Object.keys lists such keys first, in ascending numeric order.
ArrayIndexNames == { "2", "10" }
ArrayIndexValue(n) == IF n = "2" THEN 2 ELSE 10

RECURSIVE SortIndexKeys(_)
SortIndexKeys(S) ==
    IF S = {} THEN << >>
    ELSE LET m == CHOOSE x \in S : \A y \in S : ArrayIndexValue(x) <= ArrayIndexValue(y)
         IN << m >> \o SortIndexKeys(S \ { m })

ObjectKeys(obj) ==
    SortIndexKeys(Range(obj.keys) \cap ArrayIndexNames)
        \o SelectSeq(obj.keys, LAMBDA n : n \notin ArrayIndexNames)

(***************************************************************************)
(* Tokens and captures                                                     *)
(*   "NN"  a blank line, the two characters "\n\n"                         *)
(*   "E"   an escape sequence, backslash + "*"                             *)
(*   "D1", "D2"   definitions   [name]: target "title"                     *)
(*   "R1", "R2"   reference links   [text][name]                           *)
(*   "I1"         a reference image  ![alt][name]                          *)
(*   "LT"  a tight list of two items, "LL" a loose list of two items,       *)
(*   "LN"  a tight list whose item holds a nested list, "LB" a loose list   *)
(*         whose item holds a table, "LI" a tight list whose item holds a   *)
(*         nested list indented one space more than the item's text         *)
(*   "T"   a table: a header row, the alignment row and one body row        *)
(*   "B"   the text a custom rule hands to parseBlock                       *)
(* every other token is one character.                                     *)
(***************************************************************************)
UNDEF == << "undefined" >>         \* JavaScript's undefined where a string may stand

NameA == << "k", " ", "k" >>
NameB == << "K", "\n", " ", "K" >>    \* normalizes to the same name as NameA

DefTokens == { "D1", "D2" }
LinkTokens == { "R1", "R2" }
ImageTokens == { "I1" }
PlainTokens == { "a", "b", "c", "x", "k", "K", " " }
ListTokens == { "LT", "LL", "LN", "LB", "LI" }
TableTokens == { "T" }
QuoteTokens == { "B" }

\* The items LIST_ITEM_R finds in a list: the content of each after the bullet
\* and the indent are removed and LIST_ITEM_END_R is replaced (adjustedContent),
\* and whether the item is a paragraph (thisItemIsAParagraph)
ItemsOf(t) ==
    CASE t = "LT" -> << [ src |-> << "x" >>, para |-> FALSE ],
                        [ src |-> << "x" >>, para |-> FALSE ] >>
      [] t = "LL" -> << [ src |-> << "x", "NN" >>, para |-> TRUE ],
                        [ src |-> << "x", "NN" >>, para |-> TRUE ] >>
      [] t = "LN" -> << [ src |-> << "x", "\n", "LT" >>, para |-> FALSE ] >>
      [] t = "LI" -> << [ src |-> << "x", "\n", " ", "LT" >>, para |-> FALSE ] >>
      [] OTHER -> << [ src |-> << "T", "NN" >>, para |-> TRUE ] >>

\* capture[1] and the lines of capture[3] of the table patterns, trimmed
TableHeader(t) == << "x" >>
TableRows(t) == << << "x" >> >>

\* capture[1] of the custom rule
QuoteText(t) == << "x" >>

\* capture[1], capture[2], capture[3] of the def pattern
DefName(t) == IF t = "D1" THEN NameA ELSE NameB
DefTarget(t) == IF t = "D1" THEN << "/u1" >> ELSE << "/u2" >>
DefTitle(t) == IF t = "D1" THEN << "t1" >> ELSE UNDEF

\* capture[1] and capture[2] of the reflink / refimage patterns
RefText(t) == IF t = "R2" THEN << "k" >> ELSE << "x" >>
RefName(t) == IF t = "R1" THEN NameB ELSE IF t = "I1" THEN NameA ELSE << >>

NoCapture == [ ok |-> FALSE, index |-> 0, g0 |-> << >>, g1 |-> << >>,
               g2 |-> << >>, g3 |-> << >> ]

Capture(index, g0, g1, g2, g3) ==
    [ ok |-> TRUE, index |-> index, g0 |-> g0, g1 |-> g1, g2 |-> g2, g3 |-> g3 ]

\* the longest prefix of s made of tokens of S
RECURSIVE Span(_, _)
Span(s, S) ==
    IF s = << >> \/ Head(s) \notin S THEN << >>
    ELSE << Head(s) >> \o Span(Tail(s), S)

Drop(s, n) == SubSeq(s, n + 1, Len(s))

\* the spaces a string ends with
RECURSIVE TrailingSpaces(_)
TrailingSpaces(s) ==
    IF s = << >> \/ s[Len(s)] # " " THEN << >>
    ELSE Append(TrailingSpaces(SubSeq(s, 1, Len(s) - 1)), " ")

\* LIST_LOOKBEHIND_R.exec(prevCaptureStr), /(?:^|\n)( *)$/ : ok when the string
\* is spaces only or ends with a line end followed by spaces; g1 the spaces
ListLookbehind(prevCaptureStr) ==
    LET spaces == TrailingSpaces(prevCaptureStr)
        before == SubSeq(prevCaptureStr, 1, Len(prevCaptureStr) - Len(spaces))
    IN [ ok |-> before = << >> \/ before[Len(before)] \in { "\n", "NN" },
         g1 |-> spaces ]

(***************************************************************************)
(* Parser state: a JavaScript object, here a function from the keys that   *)
(* are present to their values.                                            *)
(***************************************************************************)
EmptyState == [ k \in {} |-> FALSE ]

Has(st, key) == key \in DOMAIN st

\* the truth value of a boolean-valued key; an absent key reads undefined
Truthy(st, key) == Has(st, key) /\ st[key] = TRUE

\* st[key] = v
SetKey(st, key, v) == [ k \in DOMAIN st \cup { key } |-> IF k = key THEN v ELSE st[k] ]

(***************************************************************************)
(* Recognizers (`match`)                                                   *)
(***************************************************************************)
\* regex.exec(source) for the pattern of rule r
Exec(r, source) ==
    CASE r.rec = "char" ->
            \* /^c/
            IF source # << >> /\ Head(source) = r.ch
            THEN Capture(0, << r.ch >>, << >>, << >>, << >>) ELSE NoCapture
      [] r.rec = "find" ->
            \* /c/ : no start anchor, the first occurrence matches
            IF \E i \in DOMAIN source : source[i] = r.ch
            THEN Capture((CHOOSE i \in DOMAIN source :
                              /\ source[i] = r.ch
                              /\ \A j \in 1..(i - 1) : source[j] # r.ch) - 1,
                         << r.ch >>, << >>, << >>, << >>)
            ELSE NoCapture
      [] r.rec = "star" ->
            \* /^c*/ : matches at every position, the empty string when no c is there
            Capture(0, Span(source, { r.ch }), << >>, << >>, << >>)
      [] r.rec = "text" ->
            \* one token, then plain characters up to the next symbol, blank line or end
            IF source # << >>
            THEN Capture(0, << Head(source) >> \o Span(Tail(source), PlainTokens),
                         << >>, << >>, << >>)
            ELSE NoCapture
      [] r.rec = "paragraph" ->
            \* a non-empty run without blank line, then the blank lines after it
            LET body == Span(source, { t \in Range(source) : t # "NN" })
                rest == Drop(source, Len(body))
                ends == Span(rest, { "NN" })
            IN IF body # << >> /\ ends # << >>
               THEN Capture(0, body \o ends, body, << >>, << >>) ELSE NoCapture
      [] r.rec = "newline" ->
            LET ends == Span(source, { "NN" })
            IN IF ends # << >> THEN Capture(0, ends, << >>, << >>, << >>) ELSE NoCapture
      [] r.rec = "def" ->
            \* a definition, the end of its line and the blank lines after it
            IF source # << >> /\ Head(source) \in DefTokens
                 /\ Span(Tail(source), { "NN" }) # << >>
            THEN Capture(0, << Head(source) >> \o Span(Tail(source), { "NN" }),
                         DefName(Head(source)), DefTarget(Head(source)),
                         DefTitle(Head(source)))
            ELSE NoCapture
      [] r.rec = "em" ->
            \* "*", a non-empty inside, and the next "*"
            LET inside == IF source # << >> THEN Span(Tail(source), Range(source) \ { "*" })
                          ELSE << >>
            IN IF source # << >> /\ Head(source) = "*" /\ inside # << >>
                    /\ Len(source) >= Len(inside) + 2
               THEN Capture(0, SubSeq(source, 1, Len(inside) + 2), inside, << >>, << >>)
               ELSE NoCapture
      [] r.rec = "escape" ->
            IF source # << >> /\ Head(source) = "E"
            THEN Capture(0, << "E" >>, << "*" >>, << >>, << >>) ELSE NoCapture
      [] r.rec = "reflink" ->
            IF source # << >> /\ Head(source) \in LinkTokens
            THEN Capture(0, << Head(source) >>, RefText(Head(source)),
                         RefName(Head(source)), << >>)
            ELSE NoCapture
      [] r.rec = "refimage" ->
            IF source # << >> /\ Head(source) \in ImageTokens
            THEN Capture(0, << Head(source) >>, RefText(Head(source)),
                         RefName(Head(source)), << >>)
            ELSE NoCapture
      [] r.rec = "list" ->
            \* LIST_R: a list runs up to the blank lines after it or to the end
            IF source # << >> /\ Head(source) \in ListTokens
            THEN Capture(0, << Head(source) >> \o Span(Tail(source), { "NN" }),
                         << >>, << >>, << >>)
            ELSE NoCapture
      [] r.rec = "table" ->
            \* TABLE_REGEX: the rows and the line ends after them
            IF source # << >> /\ Head(source) \in TableTokens
            THEN Capture(0, << Head(source) >> \o Span(Tail(source), { "NN" }),
                         TableHeader(Head(source)), << >>, << >>)
            ELSE NoCapture
      [] r.rec = "quote" ->
            IF source # << >> /\ Head(source) \in QuoteTokens
            THEN Capture(0, << Head(source) >>, QuoteText(Head(source)), << >>, << >>)
            ELSE NoCapture
      [] OTHER -> NoCapture

\* the list rule's match: LIST_R is run on the lookbehind's spaces + source
listMatch(r, source, st) ==
    LET prevCaptureStr == IF Has(st, "prevCapture") /\ st["prevCapture"].ok
                          THEN st["prevCapture"].g0 ELSE << >>
        isStartOfLineCapture == ListLookbehind(prevCaptureStr)
        isListBlock == Truthy(st, "_list") \/ ~Truthy(st, "inline")
        c == Exec(r, source)
    IN IF isStartOfLineCapture.ok /\ isListBlock /\ c.ok
       THEN [ c EXCEPT !.g0 = isStartOfLineCapture.g1 \o @ ]
       ELSE NoCapture

\* inlineRegex(regex)
inlineRegex(r, source, st) ==
    IF Truthy(st, "inline") THEN Exec(r, source) ELSE NoCapture

\* blockRegex(regex)
blockRegex(r, source, st) ==
    IF Truthy(st, "inline") THEN NoCapture ELSE Exec(r, source)

\* anyScopeRegex(regex)
anyScopeRegex(r, source, st) == Exec(r, source)

\* rule.match(source, state)
Match(r, source, st) ==
    CASE r.scope = "inline" -> inlineRegex(r, source, st)
      [] r.scope = "block" -> blockRegex(r, source, st)
      [] r.scope = "list" -> listMatch(r, source, st)
      [] OTHER -> anyScopeRegex(r, source, st)

\* rule.quality(capture, state), for a rule that declares it
Quality(r, capture, st) == r.qk * Len(capture.g0) + r.qb

(***************************************************************************)
(* The rule walk of nestedParse (the do-while loop)                        *)
(***************************************************************************)
NaNQ == [ nan |-> TRUE, v |-> 0 ]
Num(v) == [ nan |-> FALSE, v |-> v ]

\* currQuality <= quality: false as soon as one side is NaN
Leq(a, b) == ~a.nan /\ ~b.nan /\ a.v <= b.v

\* ruleType = rule = capture = null, quality = NaN
NoBest == [ held |-> FALSE, ruleType |-> "", rule |-> NoRule, capture |-> NoCapture,
            quality |-> NaNQ ]

\* currQuality of a capture
CurrQuality(currRule, currCapture, st) ==
    IF currRule.hasQ THEN Num(Quality(currRule, currCapture, st)) ELSE Num(0)

\* The loop body up to the increment: consult currRule, keep the better match
Consult(best, currRuleType, currRule, source, st) ==
    LET currCapture == Match(currRule, source, st) IN
    IF currCapture.ok
    THEN LET currQuality == CurrQuality(currRule, currCapture, st) IN
         IF ~Leq(currQuality, best.quality)
         THEN [ held |-> TRUE, ruleType |-> currRuleType, rule |-> currRule,
                capture |-> currCapture, quality |-> currQuality ]
         ELSE best
    ELSE best

\* A loop condition that looks at the rule just consulted, not at the next one
KeepWalkingPrev(rl, rs, i, held) ==
    /\ i <= Len(rl)
    /\ (~held \/ rs.val[rl[i - 1]].hasQ)

\* The loop condition, evaluated after i++ : currRule is now rules[ruleList[i]].
\* i is 1-based here.
KeepWalking(rl, rs, i, held) ==
    /\ i <= Len(rl)
    /\ (~held \/ rs.val[rl[i]].hasQ)

\* What one consultation leaves in the walk's record
Consulted(currRule, currCapture, st) ==
    [ id |-> currRule.id, name |-> currRule.name, hasQ |-> currRule.hasQ,
      ok |-> currCapture.ok, index |-> currCapture.index,
      q |-> IF currCapture.ok THEN CurrQuality(currRule, currCapture, st).v ELSE 0 ]

RECURSIVE WalkFrom(_, _, _, _, _, _, _)
WalkFrom(rl, rs, source, st, i, best, consulted) ==
    LET currRuleType == rl[i]
        currRule == rs.val[currRuleType]
        b == Consult(best, currRuleType, currRule, source, st)
        c == Append(consulted, Consulted(currRule, Match(currRule, source, st), st))
    IN IF KeepWalking(rl, rs, i + 1, b.held)
       THEN WalkFrom(rl, rs, source, st, i + 1, b, c)
       ELSE [ best |-> b, consulted |-> c ]

\* The whole walk at one position; ruleList is not empty
Walk(rl, rs, source, st) == WalkFrom(rl, rs, source, st, 1, NoBest, << >>)

NoWalk == [ consulted |-> << >>, all |-> << >>, sel |-> 0, selName |-> "", ok |-> FALSE,
            index |-> 0, source |-> << >> ]

\* What every rule of the list answers at this position, consulted or not
AllAnswers(rl, rs, source, st) ==
    [ i \in 1..Len(rl) |-> Consulted(rs.val[rl[i]], Match(rs.val[rl[i]], source, st), st) ]

\* The record of a walk kept in lastWalk: the rules the walk consulted, in order,
\* the answers of all rules, and the rule and capture it selected
WalkRecord(w, rl, rs, source, st) ==
    [ consulted |-> w.consulted, all |-> AllAnswers(rl, rs, source, st),
      sel |-> w.best.rule.id, selName |-> w.best.ruleType,
      ok |-> w.best.held, index |-> w.best.capture.index, source |-> source ]

(***************************************************************************)
(* AST nodes.  ckind tells what `content` is: "none", "str" (str) or "arr" *)
(* (kids).  A reference node carries oid, the index of its mutable         *)
(* target/title in heap; alt is kept in str.                               *)
(***************************************************************************)
Node(type, ckind, str, kids, oid) ==
    [ type |-> type, ckind |-> ckind, str |-> str, kids |-> kids, oid |-> oid ]

\* heap[oid]: the target and title of a def, link or image node, and the name
\* the source text gave it (as written, before normalization)
HeapNode(target, title, raw) == [ target |-> target, title |-> title, raw |-> raw ]

\* capture[2] || capture[1] of a reference
RefRaw(capture) == IF capture.g2 # << >> THEN capture.g2 ELSE capture.g1

\* a node's content read as a string, as `+=` does
ContentString(node) == IF node.ckind = "str" THEN node.str ELSE UNDEF

\* Appends every node, merging nothing
pushAlways(result, parsed) == Append(result, parsed)

\* "Collapse text nodes": lines 147-151
coalesce(result, parsed) ==
    IF parsed.type = "text" /\ result # << >> /\ result[Len(result)].type = "text"
    THEN [ result EXCEPT ![Len(result)] =
              Node("text", "str", ContentString(@) \o ContentString(parsed), @.kids, @.oid) ]
    ELSE Append(result, parsed)

(***************************************************************************)
(* Reference links: parseRef and the def rule's builder                    *)
(***************************************************************************)
Whitespace == { " ", "\n", "\t", "NN" }

toLowerCase(t) == IF t = "K" THEN "k" ELSE t

\* s.replace(/\s+/g, ' ').toLowerCase()
RECURSIVE Normalize(_)
Normalize(s) ==
    IF s = << >> THEN << >>
    ELSE IF Head(s) \in Whitespace
         THEN << " " >> \o Normalize(Drop(s, Len(Span(s, Whitespace))))
         ELSE << toLowerCase(Head(s)) >> \o Normalize(Tail(s))

EmptyTable == [ n \in {} |-> << >> ]

\* state._defs && state._defs[ref]
HasDef(st, ref) == Has(st, "_defs") /\ ref \in DOMAIN st["_defs"]

\* state._refs && state._refs[def]
HasRefs(st, def) == Has(st, "_refs") /\ def \in DOMAIN st["_refs"]

\* table[name] = v
SetEntry(table, name, v) ==
    [ n \in DOMAIN table \cup { name } |-> IF n = name THEN v ELSE table[n] ]

\* A parseRef that records the reference without looking at the definitions seen
parseRefNoLookup(capture, st, hp, oid) ==
    LET ref == Normalize(RefRaw(capture))
        refs0 == IF Has(st, "_refs") THEN st["_refs"] ELSE EmptyTable
        list0 == IF ref \in DOMAIN refs0 THEN refs0[ref] ELSE << >>
    IN [ state |-> SetKey(st, "_refs", SetEntry(refs0, ref, Append(list0, oid))),
         heap |-> hp ]

\* parseRef(capture, state, refNode), refNode being heap object oid
parseRef(capture, st, hp, oid) ==
    LET ref == Normalize(RefRaw(capture))
        hp1 == IF HasDef(st, ref)
               THEN [ hp EXCEPT ![oid].target = st["_defs"][ref].target,
                                ![oid].title = st["_defs"][ref].title ]
               ELSE hp
        refs0 == IF Has(st, "_refs") THEN st["_refs"] ELSE EmptyTable
        list0 == IF ref \in DOMAIN refs0 THEN refs0[ref] ELSE << >>
    IN [ state |-> SetKey(st, "_refs", SetEntry(refs0, ref, Append(list0, oid))),
         heap |-> hp1 ]

\* A def builder that records the definition without patching earlier references
defParseNoPatch(capture, st, hp) ==
    LET def == Normalize(capture.g1)
        defs0 == IF Has(st, "_defs") THEN st["_defs"] ELSE EmptyTable
    IN [ state |-> SetKey(st, "_defs",
                          SetEntry(defs0, def, [ target |-> capture.g2, title |-> capture.g3 ])),
         heap |-> hp ]

\* the def rule's parse(capture, parse, state)
defParse(capture, st, hp) ==
    LET def == Normalize(capture.g1)
        target == capture.g2
        title == capture.g3
        hp1 == IF HasRefs(st, def)
               THEN [ o \in DOMAIN hp |->
                        IF o \in Range(st["_refs"][def])
                        THEN [ hp[o] EXCEPT !.target = target, !.title = title ]
                        ELSE hp[o] ]
               ELSE hp
        defs0 == IF Has(st, "_defs") THEN st["_defs"] ELSE EmptyTable
    IN [ state |-> SetKey(st, "_defs",
                          SetEntry(defs0, def, [ target |-> target, title |-> title ])),
         heap |-> hp1 ]

(***************************************************************************)
(* Top-level entry: preprocess, populateInitialState, outerParse            *)
(***************************************************************************)
\* source.replace(/\r\n?/g, '\n').replace(/\f/g, '').replace(/\t/g, '    ')
RECURSIVE preprocess(_)
preprocess(source) ==
    IF source = << >> THEN << >>
    ELSE LET t == Head(source) IN
         CASE t = "\r" /\ Len(source) > 1 /\ source[2] = "NN" ->
                \* "\r\n" + "\n": the pair is one line end, a blank line is left
                << "NN" >> \o preprocess(Drop(source, 2))
           [] t = "\r" ->
                << "\n" >> \o preprocess(IF Len(source) > 1 /\ source[2] = "\n"
                                         THEN Drop(source, 2) ELSE Tail(source))
           [] t = "\f" -> preprocess(Tail(source))
           [] t = "\t" -> << " ", " ", " ", " " >> \o preprocess(Tail(source))
           [] OTHER -> << t >> \o preprocess(Tail(source))

\* A merge in which the caller's value survives for a key both objects carry
populateCallerWins(givenState, dflt) ==
    [ k \in DOMAIN givenState \cup DOMAIN dflt |->
        IF k \in DOMAIN givenState THEN givenState[k] ELSE dflt[k] ]

\* populateInitialState(givenState, defaultState):
\*   for (prop in defaultState) state[prop] = defaultState[prop]
populateInitialState(givenState, dflt) ==
    [ k \in DOMAIN givenState \cup DOMAIN dflt |->
        IF k \in DOMAIN dflt THEN dflt[k] ELSE givenState[k] ]

\* createParser(ruleListInput, defaultState): the closure's rules and ruleList
createParser(ruleListInput, dflt) ==
    LET rs == toRuleObject(ruleListInput)
    IN [ rules |-> rs, ruleList |-> ObjectKeys(rs), defaultState |-> dflt ]

(***************************************************************************)
(* nestedParse activations                                                 *)
(*   src     the remaining source                                          *)
(*   result  the nodes pushed so far                                       *)
(*   built   what the builders returned at this level: << type, content >> *)
(*   spins   how many iterations of this level consumed the empty string   *)
(*   pend    the builder that is waiting for a recursive parse it called:  *)
(*           saved, savedList, savedTable are the truth values of          *)
(*           state.inline, state._list and state.inTable it found (every   *)
(*           read of these keys in the program is a truth test, so storing *)
(*           false for undefined changes nothing); todo the texts it has   *)
(*           still to parse, done the results of those it has parsed       *)
(***************************************************************************)
NoPend == [ on |-> FALSE, ruleType |-> "", rule |-> NoRule, capture |-> NoCapture,
            saved |-> FALSE, savedList |-> FALSE, savedTable |-> FALSE,
            todo |-> << >>, done |-> << >>, oid |-> 0 ]

\* prev: the capture this activation consumed last (NoCapture before its first)
\* handed: the source the activation was called with; eaten: capture[0] of the
\* captures it has consumed, concatenated in order
Frame(src) ==
    [ src |-> src, result |-> << >>, built |-> << >>, pend |-> NoPend, spins |-> 0,
      prev |-> NoCapture, handed |-> src, eaten |-> << >> ]

Top == stack[Len(stack)]

NoOutput == [ ret |-> FALSE, nodes |-> << >> ]

\* Lines 142-154: default the type, collapse text nodes, record prevCapture, advance
Finish(f, ruleType, capture, parsed) ==
    LET node == IF parsed.type = "" THEN [ parsed EXCEPT !.type = ruleType ] ELSE parsed
    IN [ f EXCEPT !.result = coalesce(f.result, node),
                  !.built = Append(f.built, << node.type, ContentString(node) >>),
                  !.src = Drop(f.src, Len(capture.g0)),
                  !.spins = IF capture.g0 = << >> THEN @ + 1 ELSE @,
                  !.prev = capture,
                  !.eaten = @ \o capture.g0,
                  !.pend = NoPend ]

LeafBuilds == { "leaf", "ignore", "escape", "def", "refimage" }
NestBuilds == { "nest", "inline", "reflink", "block", "list", "table" }

\* What a builder that calls no recursive parse returns and does to state and heap
BuildLeaf(rule, capture, st, hp) ==
    CASE rule.build = "leaf" ->
            \* { content: capture[0] }
            [ node |-> Node(rule.type, "str", capture.g0, << >>, 0), state |-> st, heap |-> hp ]
      [] rule.build = "escape" ->
            \* { type: 'text', content: capture[1] }
            [ node |-> Node("text", "str", capture.g1, << >>, 0), state |-> st, heap |-> hp ]
      [] rule.build = "def" ->
            \* { def: def, target: target, title: title }
            LET d == defParse(capture, st, hp)
            IN [ node |-> Node("", "none", << >>, << >>, Len(hp) + 1), state |-> d.state,
                 heap |-> Append(d.heap, HeapNode(capture.g2, capture.g3, capture.g1)) ]
      [] rule.build = "refimage" ->
            \* parseRef(capture, state, { type: 'image', alt: capture[1] })
            LET oid == Len(hp) + 1
                p == parseRef(capture, st,
                              Append(hp, HeapNode(UNDEF, UNDEF, RefRaw(capture))), oid)
            IN [ node |-> Node("image", "none", capture.g1, << >>, oid),
                 state |-> p.state, heap |-> p.heap ]
      [] OTHER ->
            \* ignoreCapture: {}
            [ node |-> Node(rule.type, "none", << >>, << >>, 0), state |-> st, heap |-> hp ]

\* The texts a builder parses recursively, in order: [src, para]
SubParses(rule, capture) ==
    CASE rule.build = "list" ->
            \* one parse per item; the list token is the one after the lookbehind
            LET tokens == SelectSeq(capture.g0, LAMBDA t : t \in ListTokens)
            IN ItemsOf(tokens[1])
      [] rule.build = "table" ->
            \* parseTableRow(capture[1]) and then one per line of capture[3]
            LET tokens == SelectSeq(capture.g0, LAMBDA t : t \in TableTokens)
            IN << [ src |-> capture.g1, para |-> FALSE ] >>
                 \o [ i \in 1..Len(TableRows(tokens[1])) |->
                        [ src |-> TableRows(tokens[1])[i], para |-> FALSE ] ]
      [] rule.build = "block" ->
            \* parseBlock: parse(content + '\n\n', state)
            << [ src |-> capture.g1 \o << "NN" >>, para |-> TRUE ] >>
      [] OTHER -> << [ src |-> capture.g1, para |-> FALSE ] >>

\* The state a builder hands to the recursive parse it calls
\* (parseInline: state.inline = true; parseBlock: state.inline = false)
EnterState(rule, st) ==
    CASE rule.build = "inline" -> SetKey(st, "inline", TRUE)
      [] rule.build = "block" -> SetKey(st, "inline", FALSE)
      [] OTHER -> st

\* The state the list and table builders hand to the parse of one item or row
EnterItem(rule, item, st) ==
    CASE rule.build = "list" ->
            \* state._list = true; state.inline = !thisItemIsAParagraph
            SetKey(SetKey(st, "_list", TRUE), "inline", ~item.para)
      [] rule.build = "table" ->
            \* parseTable: state.inline = true; parseTableRow: state.inTable = true
            SetKey(SetKey(st, "inline", TRUE), "inTable", TRUE)
      [] OTHER -> EnterState(rule, st)

\* A builder that restores nothing after the parse of an item
LeaveItemAsIs(pend, st) == st

\* What the list and table builders restore when the parse of an item or row
\* has returned
LeaveItem(pend, st) ==
    CASE pend.rule.build = "list" ->
            \* state.inline = oldStateInline; state._list = oldStateList
            SetKey(SetKey(st, "inline", pend.saved), "_list", pend.savedList)
      [] pend.rule.build = "table" ->
            \* parseTableRow: state.inTable = prevInTable
            SetKey(st, "inTable", pend.savedTable)
      [] OTHER -> st

\* the results of the recursive parses of a list or table, one node per item
ItemNodes(results) ==
    [ i \in 1..Len(results) |-> Node("item", "arr", << >>, results[i], 0) ]

\* What a builder returns once its last recursive parse has returned `kids`
BuildNest(pend, kids, st, hp) ==
    CASE pend.rule.build = "inline" ->
            \* parseCaptureInline: state.inline = isCurrentlyInline afterwards
            [ node |-> Node(pend.rule.type, "arr", << >>, kids, 0),
              state |-> SetKey(st, "inline", pend.saved), heap |-> hp ]
      [] pend.rule.build = "block" ->
            \* parseBlock: state.inline = isCurrentlyInline afterwards
            [ node |-> Node(pend.rule.type, "arr", << >>, kids, 0),
              state |-> SetKey(st, "inline", pend.saved), heap |-> hp ]
      [] pend.rule.build = "list" ->
            \* { ordered, start, content: itemContent }
            [ node |-> Node(pend.rule.type, "arr", << >>,
                            ItemNodes(Append(pend.done, kids)), 0),
              state |-> LeaveItem(pend, st), heap |-> hp ]
      [] pend.rule.build = "table" ->
            \* state.inline = false; { type: 'table', header, align, cells }
            [ node |-> Node("table", "arr", << >>, ItemNodes(Append(pend.done, kids)), 0),
              state |-> SetKey(LeaveItem(pend, st), "inline", FALSE), heap |-> hp ]
      [] pend.rule.build = "reflink" ->
            \* parseRef(capture, state, { type: 'link', content: parse(capture[1], state) })
            LET oid == Len(hp) + 1
                p == parseRef(pend.capture, st,
                              Append(hp, HeapNode(UNDEF, UNDEF, RefRaw(pend.capture))), oid)
            IN [ node |-> Node("link", "arr", << >>, kids, oid),
                 state |-> p.state, heap |-> p.heap ]
      [] OTHER ->
            \* { content: parse(capture[1], state) }
            [ node |-> Node(pend.rule.type, "arr", << >>, kids, 0), state |-> st, heap |-> hp ]

(***************************************************************************)
(* Rule sets and inputs                                                    *)
(***************************************************************************)
\* Abstract rules for the walk.  m selects the pattern: 1 matches the next token
\* "b" (anchored), 2 finds "a" anywhere (no start anchor), 3 looks for "c".
\* q is the constant its scorer returns, -1 when it declares none.
RuleNames == << "r1", "r2", "r3", "r4", "r5" >>

AbstractRule(i, m, q) ==
    MkRule(i, RuleNames[i], "any",
           IF m = 2 THEN "find" ELSE "char",
           IF m = 1 THEN "b" ELSE IF m = 2 THEN "a" ELSE "c",
           q >= 0, 0, IF q >= 0 THEN q ELSE 0, "leaf", "")

WalkOptions == (1..3) \X (-1..1)

WalkRuleLists ==
    UNION { { [ i \in 1..k |-> AbstractRule(i, f[i][1], f[i][2]) ] : f \in [ 1..k -> WalkOptions ] }
            : k \in 0..MaxWalkRules }

\* The default rules the model keeps, in the order default-rules.ts adds them
defRule == MkRule(11, "def", "block", "def", "", FALSE, 0, 0, "def", "")
paragraphRule == MkRule(12, "paragraph", "block", "paragraph", "", FALSE, 0, 0, "inline", "")
newlineRule == MkRule(13, "newline", "block", "newline", "", FALSE, 0, 0, "ignore", "")
escapeRule == MkRule(14, "escape", "inline", "escape", "", FALSE, 0, 0, "escape", "text")
reflinkRule == MkRule(15, "reflink", "inline", "reflink", "", FALSE, 0, 0, "reflink", "link")
refimageRule == MkRule(16, "refimage", "inline", "refimage", "", FALSE, 0, 0, "refimage", "image")
textRule == MkRule(17, "text", "any", "text", "", FALSE, 0, 0, "leaf", "")

DocRules == << defRule, newlineRule, paragraphRule, escapeRule, reflinkRule,
               refimageRule, textRule >>

\* The list and table rules, and a custom rule that parses its text with parseBlock
listRule == MkRule(18, "list", "list", "list", "", FALSE, 0, 0, "list", "")
tableRule == MkRule(19, "table", "block", "table", "", FALSE, 0, 0, "table", "table")
quoteRule == MkRule(20, "quote", "any", "quote", "", FALSE, 0, 0, "block", "")

ScopeRules == << quoteRule, listRule, tableRule, newlineRule, paragraphRule, textRule >>

\* A rule whose pattern /^c*/ also matches the empty string
starRule == MkRule(24, "star", "any", "star", "c", FALSE, 0, 0, "leaf", "")

\* the blocks a document of list, table and plain paragraphs is made of
ScopeBlocks == { "x", "LT", "LL", "LN", "LB", "LI", "T", "B" }

\* blocks separated by blank lines
RECURSIVE JoinBlocks(_)
JoinBlocks(blocks) ==
    IF Len(blocks) <= 1 THEN blocks
    ELSE << Head(blocks), "NN" >> \o JoinBlocks(Tail(blocks))

\* two definitions of one name, a link and an image that refer to it
DefBlocks == { "D1", "D2", "R1", "I1" }

DocAlphabet == { "x", "NN", "E", "D1", "D2", "R1", "R2", "I1" }

SeqsUpTo(S, n) == UNION { [ 1..k -> S ] : k \in 0..n }

\* The documents and caller states a parser of each family is called with
SourcesOf(family) ==
    CASE family = "walk" -> { << >>, << "b", "a" >>, << "b", "c", "a" >> }
      [] family = "doc" -> SeqsUpTo(DocAlphabet, MaxLen)
      [] family = "calls" -> { << "D1" >>, << "R1" >>, << "b", "a" >>, << "LT" >> }
      [] family = "scope" -> { JoinBlocks(b) : b \in SeqsUpTo(ScopeBlocks, MaxBlocks) }
      [] family = "spin" -> { << "b" >>, << "c", "b" >> }
      [] family = "defs" -> { JoinBlocks(b) : b \in SeqsUpTo(DefBlocks, MaxDefBlocks) }
      [] OTHER -> { << >>, << "x" >>, << "\r", "x" >>, << "x", "\r" >>, << "\f" >> }

CallerStatesOf(family) ==
    CASE family = "walk" -> { [ inline |-> TRUE ] }
      [] family = "doc" -> { [ inline |-> FALSE ], [ inline |-> TRUE ] }
      [] family = "calls" -> { [ inline |-> FALSE ] }
      [] family = "scope" -> { [ inline |-> FALSE ], [ inline |-> TRUE ], EmptyState }
      [] family = "spin" -> { [ inline |-> TRUE ] }
      [] family = "defs" -> { [ inline |-> FALSE ] }
      [] OTHER -> { [ inline |-> FALSE ], [ inline |-> TRUE ],
                    [ inline |-> TRUE, disableAutoBlockNewlines |-> FALSE ] }

DefaultStatesOf(family) ==
    CASE family = "merge" -> { EmptyState, [ inline |-> TRUE ], [ inline |-> FALSE ],
                               [ disableAutoBlockNewlines |-> TRUE ] }
      [] family = "calls" -> { EmptyState, [ inline |-> FALSE ] }
      [] OTHER -> { EmptyState }

RuleListsOf(family) ==
    CASE family = "walk" -> WalkRuleLists
      [] family = "doc" -> { DocRules }
      [] family = "defs" -> { DocRules }
      [] family = "calls" ->
            { DocRules, ScopeRules } \cup { rl \in WalkRuleLists : Len(rl) <= 1 }
      [] family = "scope" -> { ScopeRules }
      [] family = "spin" -> { << starRule >>, << AbstractRule(1, 1, -1), starRule >> }
      [] OTHER -> { << textRule >> }

Families == { "walk", "doc", "merge", "scope", "spin", "defs" }

(***************************************************************************)
(* The parser: one top-level call on a parser built by createParser         *)
(***************************************************************************)
\* An entry that hands the source to nestedParse without preprocessing it
outerParseRaw(source, st, dflt) ==
    LET latestState == populateInitialState(st, dflt)
        src == IF ~Truthy(latestState, "inline")
                    /\ ~Truthy(latestState, "disableAutoBlockNewlines")
               THEN source \o << "NN" >> ELSE source
    IN [ state |-> SetKey(latestState, "prevCapture", NoCapture),
         source |-> src ]

\* An entry that appends the blank line whatever the scope
outerParseAppends(source, st, dflt) ==
    LET latestState == populateInitialState(st, dflt)
    IN [ state |-> SetKey(latestState, "prevCapture", NoCapture),
         source |-> preprocess(source \o << "NN" >>) ]

\* outerParse up to its call of nestedParse: the state and the source it passes
outerParse(source, st, dflt) ==
    LET latestState == populateInitialState(st, dflt)
        src == IF ~Truthy(latestState, "inline")
                    /\ ~Truthy(latestState, "disableAutoBlockNewlines")
               THEN source \o << "NN" >> ELSE source
    IN [ state |-> SetKey(latestState, "prevCapture", NoCapture),
         source |-> preprocess(src) ]

\* if (capture.index) is never taken
UnanchoredNever(capture) == FALSE

\* if (capture.index): present and non-zero
Unanchored(capture) == capture.index # 0

RegIdle ==
    /\ lists = << << >> >>
    /\ regR = 1
    /\ regC = 0
    /\ lastOp = [ op |-> "new", h |-> "R", err |-> FALSE ]

\* No top-level call has been made yet
NoCall(family) ==
    [ family |-> family, source |-> << >>, state |-> EmptyState, call |-> 1, nodes0 |-> 0 ]

\* A parser built by createParser from a rule list of the family; nothing parsed yet
InitFamily(family) ==
    /\ RegIdle
    /\ \E rl \in RuleListsOf(family), dflt \in DefaultStatesOf(family) :
            LET p == createParser(rl, dflt) IN
            /\ rules = p.rules
            /\ ruleList = p.ruleList
            /\ defaultState = p.defaultState
            /\ given = NoCall(family)
    /\ state = EmptyState
    /\ stack = << >>
    /\ heap = << >>
    /\ status = "idle"
    /\ out = NoOutput
    /\ lastWalk = NoWalk

Init == \E family \in Families : InitFamily(family)

OuterParse ==
    /\ status = "idle"
    /\ \E source \in SourcesOf(given.family), st \in CallerStatesOf(given.family) :
         LET o == outerParse(source, st, defaultState) IN
         /\ given' = [ given EXCEPT !.source = source, !.state = st ]
         /\ state' = o.state
         /\ stack' = << Frame(o.source) >>
    /\ status' = "running"
    /\ UNCHANGED << heap, out, lastWalk >>
    /\ UNCHANGED regVars
    /\ UNCHANGED parserVars

\* nestedParse is at the head of its while loop with source left
AtPosition ==
    /\ status = "running"
    /\ stack # << >>
    /\ Top.src # << >>

W == Walk(ruleList, rules, Top.src, state)

Fail(error) ==
    /\ status' = error
    /\ stack' = << >>
    /\ UNCHANGED << state, heap, out, given >>
    /\ UNCHANGED regVars
    /\ UNCHANGED parserVars

\* ruleList is empty: rules[ruleList[0]] is undefined and currRule.match throws
ThrowTypeError ==
    /\ AtPosition
    /\ ruleList = << >>
    /\ lastWalk' = [ NoWalk EXCEPT !.source = Top.src ]
    /\ Fail("TypeError")

\* 'Could not find a matching rule for the below content'
ThrowNoMatchingRule ==
    /\ AtPosition
    /\ ruleList # << >>
    /\ \E w \in { W } :
        /\ ~w.best.held
        /\ lastWalk' = WalkRecord(w, ruleList, rules, Top.src, state)
        /\ Fail("NoMatchingRule")

\* '`match` must return a capture starting at index 0'
ThrowUnanchoredCapture ==
    /\ AtPosition
    /\ ruleList # << >>
    /\ \E w \in { W } :
        /\ w.best.held
        /\ Unanchored(w.best.capture)
        /\ lastWalk' = WalkRecord(w, ruleList, rules, Top.src, state)
        /\ Fail("UnanchoredCapture")

\* One loop iteration whose builder calls no recursive parse
Consume ==
    /\ AtPosition
    /\ ruleList # << >>
    /\ \E w \in { W } :
        /\ w.best.held
        /\ ~Unanchored(w.best.capture)
        /\ w.best.rule.build \in LeafBuilds
        /\ w.best.capture.g0 = << >> => Top.spins < MaxSpins
        /\ LET b == BuildLeaf(w.best.rule, w.best.capture, state, heap) IN
           /\ stack' = [ stack EXCEPT ![Len(stack)] =
                            Finish(@, w.best.ruleType, w.best.capture, b.node) ]
           /\ state' = SetKey(b.state, "prevCapture", w.best.capture)
           /\ heap' = b.heap
        /\ lastWalk' = WalkRecord(w, ruleList, rules, Top.src, state)
        /\ UNCHANGED << status, out, given >>
        /\ UNCHANGED regVars
        /\ UNCHANGED parserVars

\* One loop iteration up to the recursive parse its builder calls
Descend ==
    /\ AtPosition
    /\ ruleList # << >>
    /\ \E w \in { W } :
        /\ w.best.held
        /\ ~Unanchored(w.best.capture)
        /\ w.best.rule.build \in NestBuilds
        /\ LET subs == SubParses(w.best.rule, w.best.capture) IN
           /\ stack' = [ stack EXCEPT ![Len(stack)].pend =
                            [ on |-> TRUE, ruleType |-> w.best.ruleType, rule |-> w.best.rule,
                              capture |-> w.best.capture,
                              saved |-> Truthy(state, "inline"),
                              savedList |-> Truthy(state, "_list"),
                              savedTable |-> Truthy(state, "inTable"),
                              todo |-> Tail(subs), done |-> << >>, oid |-> 0 ] ]
                        \o << Frame(subs[1].src) >>
           /\ state' = EnterItem(w.best.rule, subs[1], state)
        /\ lastWalk' = WalkRecord(w, ruleList, rules, Top.src, state)
        /\ UNCHANGED << heap, status, out, given >>
        /\ UNCHANGED regVars
        /\ UNCHANGED parserVars

\* A recursive parse returns to a list or table builder that has items or rows
\* left: it restores what it saved and parses the next one
NextItem ==
    /\ status = "running"
    /\ Len(stack) > 1
    /\ Top.src = << >>
    /\ stack[Len(stack) - 1].pend.todo # << >>
    /\ LET parent == stack[Len(stack) - 1]
           item == Head(parent.pend.todo)
       IN /\ stack' = SubSeq(stack, 1, Len(stack) - 2)
                        \o << [ parent EXCEPT !.pend.todo = Tail(@),
                                               !.pend.done = Append(@, Top.result) ],
                              Frame(item.src) >>
          /\ state' = EnterItem(parent.pend.rule, item, LeaveItem(parent.pend, state))
    /\ UNCHANGED << heap, status, out, lastWalk, given >>
    /\ UNCHANGED regVars
    /\ UNCHANGED parserVars

\* The last recursive parse of a builder returns: the waiting builder completes
\* and the enclosing loop iteration ends
Resume ==
    /\ status = "running"
    /\ Len(stack) > 1
    /\ Top.src = << >>
    /\ stack[Len(stack) - 1].pend.todo = << >>
    /\ LET parent == stack[Len(stack) - 1]
           b == BuildNest(parent.pend, Top.result, state, heap)
       IN /\ stack' = SubSeq(stack, 1, Len(stack) - 2)
                        \o << Finish(parent, parent.pend.ruleType, parent.pend.capture, b.node) >>
          /\ state' = SetKey(b.state, "prevCapture", parent.pend.capture)
          /\ heap' = b.heap
    /\ UNCHANGED << status, out, lastWalk, given >>
    /\ UNCHANGED regVars
    /\ UNCHANGED parserVars

\* The top-level nestedParse returns its result
Return ==
    /\ status = "running"
    /\ Len(stack) = 1
    /\ Top.src = << >>
    /\ status' = "returned"
    /\ out' = [ ret |-> TRUE, nodes |-> Top.result ]
    /\ stack' = << >>
    /\ UNCHANGED << state, heap, lastWalk, given >>
    /\ UNCHANGED regVars
    /\ UNCHANGED parserVars

Next ==
    \/ OuterParse
    \/ ThrowTypeError
    \/ ThrowNoMatchingRule
    \/ ThrowUnanchoredCapture
    \/ Consume
    \/ Descend
    \/ NextItem
    \/ Resume
    \/ Return

Spec == Init /\ [][Next]_vars

(***************************************************************************)
(* Several top-level calls on one parser.  The caller hands a new state    *)
(* object, or the object it handed to the call before: populateInitialState *)
(* returns givenState itself, so that object is the state the earlier call *)
(* left, with every key the rules stored in it.  The nodes earlier calls   *)
(* returned stay in the heap.                                              *)
(***************************************************************************)
OuterParseAgain ==
    /\ status \notin { "idle", "running" }
    /\ given.call < MaxCalls
    /\ \E source \in SourcesOf(given.family),
          st \in CallerStatesOf(given.family) \cup { state } :
         LET o == outerParse(source, st, defaultState) IN
         /\ given' = [ given EXCEPT !.source = source, !.state = st,
                                    !.call = @ + 1, !.nodes0 = Len(heap) ]
         /\ state' = o.state
         /\ stack' = << Frame(o.source) >>
    /\ status' = "running"
    /\ out' = NoOutput
    /\ lastWalk' = NoWalk
    /\ UNCHANGED heap
    /\ UNCHANGED regVars
    /\ UNCHANGED parserVars

InitCalls == InitFamily("calls")

NextCalls ==
    \/ OuterParse
    \/ OuterParseAgain
    \/ ThrowTypeError
    \/ ThrowNoMatchingRule
    \/ ThrowUnanchoredCapture
    \/ Consume
    \/ Descend
    \/ NextItem
    \/ Resume
    \/ Return

SpecCalls == InitCalls /\ [][NextCalls]_vars

(***************************************************************************)
(* Claims about the rule walk.  They read lastWalk, the record of the walk *)
(* the last loop iteration performed: consulted is the sequence of rules   *)
(* whose recognizer was invoked, all the answers of every rule.            *)
(***************************************************************************)
\* positions i..j of the rule order all declare a scorer
SameRun(i, j) == \A k \in i..j : lastWalk.all[k].hasQ

\* the matching rules of the run that contains position i
RunMatches(i) ==
    { k \in DOMAIN lastWalk.all :
        /\ lastWalk.all[k].ok
        /\ SameRun(Min2(i, k), IF i <= k THEN k ELSE i) }

\* the member of M with the highest score, the earliest one among equals
BestOf(M) ==
    CHOOSE k \in M : \A l \in M :
        \/ lastWalk.all[l].q < lastWalk.all[k].q
        \/ (lastWalk.all[l].q = lastWalk.all[k].q /\ k <= l)

\* C1: when at least two rules of one contiguous run of scorer-declaring rules
\* are consulted and match, the selected rule is the matching rule of that run
\* with the highest score, the earliest in the order among equal scores.
C1_HighestScoreOfRunSelected ==
    \A i, j \in DOMAIN lastWalk.consulted :
        (i < j /\ lastWalk.all[i].ok /\ lastWalk.all[j].ok /\ SameRun(i, j))
            => lastWalk.sel = lastWalk.all[BestOf(RunMatches(i))].id

\* C2: once a consulted rule has matched, no later rule that declares no scorer
\* is consulted at this position, and such a rule is never the selected one.
C2_ScorerlessAfterCandidateSkipped ==
    \A i \in DOMAIN lastWalk.consulted : \A j \in DOMAIN lastWalk.all :
        (i < j /\ lastWalk.consulted[i].ok /\ ~lastWalk.all[j].hasQ)
            => /\ j > Len(lastWalk.consulted)
               /\ lastWalk.sel # lastWalk.all[j].id

\* A walk in which a rule matched and a later scorer-less rule, which would
\* have matched too, was not consulted
C2_Witness ==
    \E i \in DOMAIN lastWalk.consulted : \E j \in DOMAIN lastWalk.all :
        /\ i < j
        /\ lastWalk.consulted[i].ok
        /\ ~lastWalk.all[j].hasQ
        /\ lastWalk.all[j].ok
        /\ j > Len(lastWalk.consulted)

\* C3: when a consulted rule matched and declares no scorer, it is the last rule
\* consulted at this position and it is the selected rule.
C3_ScorerlessMatchEndsWalk ==
    \A i \in DOMAIN lastWalk.consulted :
        (lastWalk.consulted[i].ok /\ ~lastWalk.consulted[i].hasQ)
            => /\ Len(lastWalk.consulted) = i
               /\ lastWalk.sel = lastWalk.consulted[i].id

(***************************************************************************)
(* Claims about the nodes a parse call returns                             *)
(***************************************************************************)
\* The builder results of one level with every run of text results merged
RECURSIVE Merged(_)
Merged(built) ==
    IF Len(built) <= 1 THEN built
    ELSE LET front == Merged(SubSeq(built, 1, Len(built) - 1))
             last == built[Len(built)]
             prev == front[Len(front)]
         IN IF last[1] = "text" /\ prev[1] = "text"
            THEN SubSeq(front, 1, Len(front) - 1) \o << << "text", prev[2] \o last[2] >> >>
            ELSE Append(front, last)

\* type and content of the nodes of a sequence
Shape(nodes) == [ i \in 1..Len(nodes) |-> << nodes[i].type, ContentString(nodes[i]) >> ]

NoAdjacentText(nodes) ==
    \A i \in 1..(Len(nodes) - 1) : ~(nodes[i].type = "text" /\ nodes[i + 1].type = "text")

\* every node of a tree, at any depth
RECURSIVE AllNodes(_)
AllNodes(nodes) ==
    UNION { { nodes[i] } \cup AllNodes(nodes[i].kids) : i \in DOMAIN nodes }

\* the activations whose loop has ended: they return their result next
Returning == { i \in DOMAIN stack : stack[i].src = << >> }

\* C4: the node sequence a parse call returns, top-level or recursive, has no two
\* adjacent text nodes, and is the sequence of its builders' results with each
\* maximal run of text results replaced by one text node holding the
\* concatenation of their contents; the same holds of every nested content.
C4_TextCoalesced ==
    /\ \A i \in Returning :
          /\ NoAdjacentText(stack[i].result)
          /\ Shape(stack[i].result) = Merged(stack[i].built)
          /\ \A n \in AllNodes(stack[i].result) : NoAdjacentText(n.kids)
    /\ out.ret =>
          /\ NoAdjacentText(out.nodes)
          /\ \A n \in AllNodes(out.nodes) : NoAdjacentText(n.kids)

\* A recursive parse about to return one text node made of two text results,
\* after a node of another type
C4_Witness ==
    \E i \in Returning :
        /\ i > 1
        /\ \E k \in 1..(Len(stack[i].built) - 2) :
              /\ stack[i].built[k][1] # "text"
              /\ stack[i].built[k + 1][1] = "text"
              /\ stack[i].built[k + 2][1] = "text"
        /\ Len(stack[i].result) < Len(stack[i].built)

\* the def, link and image nodes of the returned tree
DefNodes == { n \in AllNodes(out.nodes) : n.type = "def" }
RefNodes == { n \in AllNodes(out.nodes) : n.type \in { "link", "image" } /\ n.oid # 0 }

\* the name of a node as the tables key it: whitespace collapsed, lower-cased
NameOf(n) == Normalize(heap[n.oid].raw)

\* C5: after a top-level call returns, every reference node whose normalized name
\* is that of exactly one definition of the document carries that definition's
\* target and title, whether it was built before or after the definition.
C5_ForwardReferencesResolved ==
    out.ret =>
        \A d \in DefNodes : \A r \in RefNodes :
            ( /\ NameOf(r) = NameOf(d)
              /\ \A e \in DefNodes : NameOf(e) = NameOf(d) => e = d )
                => /\ heap[r.oid].target = heap[d.oid].target
                   /\ heap[r.oid].title = heap[d.oid].title

\* A returned document whose reference was built before its only definition,
\* under a name written differently
C5_Witness ==
    /\ out.ret
    /\ \E d \in DefNodes : \E r \in RefNodes :
          /\ NameOf(r) = NameOf(d)
          /\ heap[r.oid].raw # heap[d.oid].raw
          /\ r.oid < d.oid
          /\ \A e \in DefNodes : e = d
          /\ heap[r.oid].target = << "/u1" >>

(***************************************************************************)
(* Claims about the fatal errors                                           *)
(***************************************************************************)
\* C8: when, at a position with source left, no rule of the list matches, the
\* call ends with the NoMatchingRule error and returns no node sequence.
C8_NoMatchIsNoMatchingRule ==
    (lastWalk.source # << >> /\ \A k \in DOMAIN lastWalk.all : ~lastWalk.all[k].ok)
        => (status = "NoMatchingRule" /\ ~out.ret)

\* C9: when the selected capture starts at a non-zero offset, the step taken is
\* the UnanchoredCapture failure: the builder has not run (state and heap are
\* untouched), nothing is returned and no activation is left to advance.
C9_UnanchoredCaptureFails ==
    [][ (AtPosition /\ ruleList # << >> /\ W.best.held /\ W.best.capture.index # 0)
            => /\ status' = "UnanchoredCapture"
               /\ state' = state
               /\ heap' = heap
               /\ ~out'.ret
               /\ stack' = << >> ]_vars

\* A call that failed on a capture found one token into the source, after a
\* node had been built
C9_Witness ==
    /\ status = "UnanchoredCapture"
    /\ lastWalk.ok
    /\ lastWalk.index = 1
    /\ Has(state, "prevCapture") /\ state["prevCapture"].ok

(***************************************************************************)
(* Claims about the initial state                                          *)
(***************************************************************************)
\* outerParse has just called nestedParse
AtEntry == status = "running" /\ Len(stack) = 1 /\ lastWalk = NoWalk

\* C10: the parse starts with the merge of the caller's state and the default
\* state in which the caller's value stands for every key both carry.
C10_CallerValuesWin ==
    AtEntry =>
        \A k \in (DOMAIN given.state \cup DOMAIN defaultState) \ { "prevCapture" } :
            /\ Has(state, k)
            /\ state[k] = IF k \in DOMAIN given.state THEN given.state[k] ELSE defaultState[k]

(***************************************************************************)
(* The registry: a RuleList R, edited, cloned into C, both edited further  *)
(***************************************************************************)
\* The rule objects the registry specification is called with: the default em
\* rule and two distinct objects that both carry the name 'issue'
emRule == MkRule(21, "em", "inline", "em", "", TRUE, 10, 2, "nest", "")
issueRule == MkRule(22, "issue", "inline", "char", "#", FALSE, 0, 0, "ignore", "")
issueRule2 == MkRule(23, "issue", "inline", "char", "!", FALSE, 0, 0, "ignore", "")

RegRules == { emRule, issueRule, issueRule2 }

\* the names the calls are made with; no rule is named 'missing'
RegNames == { "em", "issue", "missing" }

Handles == { "R", "C" }

ArrOf(h) == IF h = "R" THEN regR ELSE regC

RegFrame ==
    /\ UNCHANGED parserVars
    /\ UNCHANGED parseVars

Add(h, rule) ==
    /\ ArrOf(h) # 0
    /\ Len(lists[ArrOf(h)]) < MaxRules
    /\ lists' = [ lists EXCEPT ![ArrOf(h)] = add(@, rule) ]
    /\ lastOp' = [ op |-> "add", h |-> h, err |-> FALSE ]
    /\ UNCHANGED << regR, regC >>
    /\ RegFrame

InsertBefore(h, name, newRule) ==
    /\ ArrOf(h) # 0
    /\ Len(lists[ArrOf(h)]) < MaxRules
    /\ LET res == insertBefore(lists[ArrOf(h)], name, newRule) IN
       /\ lists' = [ lists EXCEPT ![ArrOf(h)] = res.arr ]
       /\ lastOp' = [ op |-> "insertBefore", h |-> h, err |-> res.err ]
    /\ UNCHANGED << regR, regC >>
    /\ RegFrame

InsertAfter(h, name, newRule) ==
    /\ ArrOf(h) # 0
    /\ Len(lists[ArrOf(h)]) < MaxRules
    /\ LET res == insertAfter(lists[ArrOf(h)], name, newRule) IN
       /\ lists' = [ lists EXCEPT ![ArrOf(h)] = res.arr ]
       /\ lastOp' = [ op |-> "insertAfter", h |-> h, err |-> res.err ]
    /\ UNCHANGED << regR, regC >>
    /\ RegFrame

Remove(h, name) ==
    /\ ArrOf(h) # 0
    /\ LET res == remove(lists[ArrOf(h)], name) IN
       /\ lists' = [ lists EXCEPT ![ArrOf(h)] = res.arr ]
       /\ lastOp' = [ op |-> "remove", h |-> h, err |-> res.err ]
    /\ UNCHANGED << regR, regC >>
    /\ RegFrame

\* C = R.clone()
Clone ==
    /\ LET c == clone(lists, regR) IN
       /\ lists' = c.lists
       /\ regC' = c.id
    /\ lastOp' = [ op |-> "clone", h |-> "R", err |-> FALSE ]
    /\ UNCHANGED regR
    /\ RegFrame

InitReg ==
    /\ RegIdle
    /\ rules = EmptyObject
    /\ ruleList = << >>
    /\ defaultState = EmptyState
    /\ given = NoCall("none")
    /\ state = EmptyState
    /\ stack = << >>
    /\ heap = << >>
    /\ status = "idle"
    /\ out = NoOutput
    /\ lastWalk = NoWalk

NextReg ==
    \/ \E h \in Handles, rule \in RegRules : Add(h, rule)
    \/ \E h \in Handles, name \in RegNames, rule \in RegRules : InsertBefore(h, name, rule)
    \/ \E h \in Handles, name \in RegNames, rule \in RegRules : InsertAfter(h, name, rule)
    \/ \E h \in Handles, name \in RegNames : Remove(h, name)
    \/ Clone

SpecReg == InitReg /\ [][NextReg]_vars

(***************************************************************************)
(* A registry R that is edited and from which parsers are built            *)
(***************************************************************************)
\* a rule whose name is a canonical array index
twoRule == MkRule(25, "2", "inline", "char", "2", FALSE, 0, 0, "ignore", "")

BuildRules == RegRules \cup { twoRule }

\* parser = createParser(R): the parser built last is the one the model keeps
CreateParser ==
    /\ LET p == createParser(lists[regR], EmptyState) IN
       /\ rules' = p.rules
       /\ ruleList' = p.ruleList
       /\ defaultState' = p.defaultState
    /\ lastOp' = [ op |-> "createParser", h |-> "R", err |-> FALSE ]
    /\ UNCHANGED << lists, regR, regC >>
    /\ UNCHANGED parseVars

NextBuild ==
    \/ \E rule \in BuildRules : Add("R", rule)
    \/ \E name \in RegNames, rule \in BuildRules : InsertBefore("R", name, rule)
    \/ \E name \in RegNames, rule \in BuildRules : InsertAfter("R", name, rule)
    \/ \E name \in RegNames : Remove("R", name)
    \/ CreateParser

SpecBuild == InitReg /\ [][NextBuild]_vars

(***************************************************************************)
(* Claims about the registry                                               *)
(***************************************************************************)
\* the rules a parser built from arr consults, in order, at a position where no
\* rule matches: the walk then goes through the whole list
ConsultOrder(arr) ==
    LET p == createParser(arr, EmptyState)
    IN IF p.ruleList = << >> THEN << >>
       ELSE Walk(p.ruleList, p.rules, << "z" >>, [ inline |-> TRUE ]).consulted

\* C6: after insertBefore(A, r) on a registry that holds a rule named A and
\* does not hold the object r yet, get(r.name) is r, r sits immediately before the rule named A with the other
\* rules in their order, and a parser built from the registry consults r
\* before that rule.
C6_InsertBeforeGetAndPriority ==
    [][ \A h \in Handles, A \in RegNames, r \in RegRules :
          ( /\ InsertBefore(h, A, r)
            /\ findIndex(lists[ArrOf(h)], A) # -1
            /\ r \notin Range(lists[ArrOf(h)]) )
            => LET before == lists[ArrOf(h)]
                   after == lists'[ArrOf(h)]
                   anchor == get(before, A)
                   order == ConsultOrder(after)
               IN /\ get(after, r.name) = r
                  /\ \E i \in 1..(Len(after) - 1) :
                        /\ after[i] = r
                        /\ after[i + 1] = anchor
                        /\ SpliceOut(after, i - 1) = before
                  /\ \E i, j \in DOMAIN order :
                        /\ i < j
                        /\ order[i].id = r.id
                        /\ order[j].id = anchor.id ]_vars

\* the calls that edit a registry
Edits == { "add", "insertBefore", "insertAfter", "remove" }

\* C7: right after C = R.clone() C holds R's rules in R's order and R is as it
\* was; from then on an edit made on C leaves R's rule sequence as it was, and
\* an edit made on R leaves C's.
C7_CloneIsolation ==
    [][ /\ lastOp'.op = "clone" =>
              /\ lists'[regC'] = lists[regR]
              /\ lists'[regR'] = lists[regR]
        /\ (lastOp'.op \in Edits /\ lastOp'.h = "C") => lists'[regR'] = lists[regR]
        /\ (lastOp'.op \in Edits /\ lastOp'.h = "R" /\ regC # 0) =>
              lists'[regC'] = lists[regC] ]_vars

\* A rule was removed from the clone of a registry that still holds it
C7_Witness ==
    /\ regC # 0
    /\ lastOp = [ op |-> "remove", h |-> "C", err |-> FALSE ]
    /\ Len(lists[regR]) > Len(lists[regC])
    /\ lists[regC] # << >>

(***************************************************************************)
(* Claims about successive calls                                           *)
(***************************************************************************)
\* the forward-reference table kept under key is absent or empty
TableEmpty(st, key) == ~Has(st, key) \/ st[key] = EmptyTable

\* the names the definitions of a source text define, as the tables key them
DefinedIn(source) ==
    { Normalize(DefName(source[i])) : i \in { k \in DOMAIN source : source[k] \in DefTokens } }

\* C11: every top-level call starts with empty definition and pending-reference
\* tables; while a call runs, the nodes built by earlier calls keep their
\* target and title, and a reference node the call builds has a target only if
\* the text of this call defines its name.
C11_TablesFreshEachCall ==
    [][ /\ (status # "running" /\ status' = "running") =>
              /\ TableEmpty(state', "_defs")
              /\ TableEmpty(state', "_refs")
        /\ (status = "running" /\ status' = "running") =>
              /\ \A o \in 1..given.nodes0 : heap'[o] = heap[o]
              /\ \A o \in (Len(heap) + 1)..Len(heap') :
                    ( /\ HasRefs(state', Normalize(heap'[o].raw))
                      /\ o \in Range(state'["_refs"][Normalize(heap'[o].raw)])
                      /\ heap'[o].target # UNDEF )
                        => Normalize(heap'[o].raw) \in DefinedIn(given.source) ]_vars

(***************************************************************************)
(* Claims about whole documents                                            *)
(***************************************************************************)
\* the parser was built from a registry that holds the text rule and nothing else
TextOnly == ruleList = << "text" >> /\ rules.val["text"] = textRule

\* the state the call started with asks for no blank line to be appended
StartsInline ==
    LET latestState == populateInitialState(given.state, defaultState)
    IN Truthy(latestState, "inline") \/ Truthy(latestState, "disableAutoBlockNewlines")

\* C12 as stated: a parser of the text rule alone, called on a non-empty input,
\* returns exactly one node, a text node whose content is the preprocessed input.
C12_TextOnlyReturnsInput ==
    (status = "returned" /\ TextOnly /\ given.source # << >>) =>
        /\ Len(out.nodes) = 1
        /\ out.nodes[1].type = "text"
        /\ ContentString(out.nodes[1]) = preprocess(given.source)

\* the text outerParse hands to the loop for the input of the current call
ParsedText ==
    preprocess(IF StartsInline THEN given.source ELSE given.source \o << "NN" >>)

\* C12 amended: a parser of the text rule alone, called on a non-empty input,
\* returns exactly one node, a text node; its content is the preprocessed input
\* when the call starts in inline scope or with disableAutoBlockNewlines set,
\* and otherwise the preprocessed text of the input followed by a blank line;
\* when preprocessing leaves nothing, the call returns no node.
C12_TextOnlyReturnsSource ==
    (status = "returned" /\ TextOnly /\ given.source # << >>) =>
        IF ParsedText = << >>
        THEN out.nodes = << >>
        ELSE /\ Len(out.nodes) = 1
             /\ out.nodes[1].type = "text"
             /\ ContentString(out.nodes[1]) = ParsedText

\* A block-scope call of the text-only parser returned, on an input that ends
\* with a carriage return
C12_Witness ==
    /\ status = "returned"
    /\ TextOnly
    /\ given.source = << "x", "\r" >>
    /\ ~StartsInline
    /\ out.nodes # << >>

\* C13 as stated: a top-level call on the empty string returns the empty node
\* sequence and raises no error, whatever the state and the rules.
C13_EmptyInputReturnsNothing ==
    (status \notin { "idle", "running" } /\ given.source = << >>) =>
        /\ status = "returned"
        /\ out.nodes = << >>

\* C13 amended: a top-level call on the empty string that starts in inline scope
\* or with disableAutoBlockNewlines set returns the empty node sequence and
\* raises no error, whatever the rules; a call that starts in block scope
\* parses the blank line outerParse appends.
C13_EmptyInlineInputReturnsNothing ==
    /\ (status \notin { "idle", "running" } /\ given.source = << >> /\ StartsInline) =>
          /\ status = "returned"
          /\ out.nodes = << >>
    /\ (AtEntry /\ given.source = << >>) =>
          Top.src = IF StartsInline THEN << >> ELSE << "NN" >>

\* An inline-scope call on the empty string returned from a parser without rules
C13_Witness ==
    /\ status = "returned"
    /\ given.source = << >>
    /\ StartsInline
    /\ ruleList = << >>
    /\ out = [ ret |-> TRUE, nodes |-> << >> ]

(***************************************************************************)
(* Claims about registry names                                             *)
(***************************************************************************)
\* no two positions of arr hold rules of one name
UniqueNames(arr) ==
    \A i, j \in DOMAIN arr : i # j => arr[i].name # arr[j].name

\* C14: in every registry reached from the empty one by add, insertBefore,
\* insertAfter, remove and clone, no two rules have the same name.
C14_NamesUnique ==
    /\ UniqueNames(lists[regR])
    /\ regC # 0 => UniqueNames(lists[regC])

\* C15: insertBefore, insertAfter and remove called with a name no rule of the
\* registry carries throw and leave every registry as it was; get with such a
\* name returns undefined.
C15_UnknownNameFails ==
    [][ \A h \in Handles, name \in RegNames :
          (ArrOf(h) # 0 /\ findIndex(lists[ArrOf(h)], name) = -1) =>
              /\ get(lists[ArrOf(h)], name) = NoRule
              /\ \A r \in RegRules :
                    /\ InsertBefore(h, name, r) => (lastOp'.err /\ lists' = lists)
                    /\ InsertAfter(h, name, r) => (lastOp'.err /\ lists' = lists)
              /\ Remove(h, name) => (lastOp'.err /\ lists' = lists) ]_vars

\* A remove of a name the clone does not hold has thrown, the clone holding
\* other rules
C15_Witness ==
    /\ regC # 0
    /\ lastOp = [ op |-> "remove", h |-> "C", err |-> TRUE ]
    /\ lists[regC] # << >>

(***************************************************************************)
(* Claims about the scope                                                  *)
(***************************************************************************)
\* C16: when a builder that parsed recursively (through parseInline or
\* parseBlock, or the list or table builder) returns, state.inline has the truth
\* value it had when the builder's rule matched, at every depth.
C16_ScopeRestored ==
    [][ Resume => Truthy(state', "inline") = stack[Len(stack) - 1].pend.saved ]_vars

\* An inline-scope call has built the node of the parseBlock rule, around a
\* paragraph that was parsed in block scope, and is in inline scope again
C16_Witness ==
    /\ status = "running"
    /\ Len(stack) = 1
    /\ ~Top.pend.on
    /\ Top.result # << >>
    /\ Top.result[Len(Top.result)].type = "quote"
    /\ \E i \in DOMAIN Top.result[Len(Top.result)].kids :
          Top.result[Len(Top.result)].kids[i].type = "paragraph"
    /\ Truthy(state, "inline")

(***************************************************************************)
(* Claims about termination                                                *)
(***************************************************************************)
\* C17, in the form a finite run refutes: no iteration of the loop ends at the
\* cursor position and in the state it began with.  The recognizers and the
\* builder of such an iteration are given the same source and the same state
\* again, so the iteration repeats and the call neither returns nor fails.
C17_LoopAdvances ==
    [][ Consume => (Top'.src # Top.src \/ state' # state) ]_vars

(***************************************************************************)
(* Claims about the order a parser consults rules in                       *)
(***************************************************************************)
\* the identities of the rules the parser consults, in order, at a position
\* where no rule matches
ParserConsults ==
    IF ruleList = << >> THEN << >>
    ELSE LET c == Walk(ruleList, rules, << "z" >>, [ inline |-> TRUE ]).consulted
         IN [ i \in 1..Len(c) |-> c[i].id ]

\* the identities of the rules of a registry, in order
RegistryIds(arr) == [ i \in 1..Len(arr) |-> arr[i].id ]

\* C18: a parser consults the rules in the sequence the registry held when
\* createParser was called, the same objects at the same positions, and later
\* edits of the registry leave that sequence as it is.
C18_ConsultOrderIsRegistryOrder ==
    [][ /\ CreateParser => ParserConsults' = RegistryIds(lists[regR])
        /\ lastOp'.op \in Edits => ParserConsults' = ParserConsults ]_vars

(***************************************************************************)
(* Claims about the lookbehind value                                       *)
(***************************************************************************)
\* C19: whenever the recognizers are invoked at a position of a parse level,
\* state.prevCapture is the capture consumed immediately before at that same
\* level, and it is absent at the first position of the level.
C19_PrevCaptureIsPerLevel ==
    AtPosition => (Has(state, "prevCapture") /\ state["prevCapture"] = Top.prev)

(***************************************************************************)
(* Claims about captures that do not start at the parse position           *)
(***************************************************************************)
\* C20: whenever a recognizer consulted during the rule walk at a position
\* returns a capture that does not start at offset 0 of the remaining source,
\* the call fails fatally, also when that capture is outscored by another
\* rule's capture of the same walk.
C20_AnyUnanchoredCaptureIsFatal ==
    \A i \in DOMAIN lastWalk.consulted :
        (lastWalk.consulted[i].ok /\ lastWalk.consulted[i].index # 0)
            => status = "UnanchoredCapture"

(***************************************************************************)
(* Claims about the cursor                                                 *)
(***************************************************************************)
\* C21: at every parse level, capture[0] of the captures consumed so far,
\* concatenated in order, followed by the source that is left, is the source
\* handed to that level: no character is skipped or consumed twice.
C21_NothingSkippedOrTwice ==
    \A i \in DOMAIN stack : stack[i].eaten \o stack[i].src = stack[i].handed

(***************************************************************************)
(* Claims about several definitions of one name                            *)
(***************************************************************************)
\* the definitions of the returned tree that have the name of node n
DefsNamed(n) == { d \in DefNodes : NameOf(d) = NameOf(n) }

\* the one of them that was parsed last: heap objects are numbered as they are made
LastDef(n) == CHOOSE d \in DefsNamed(n) : \A e \in DefsNamed(n) : e.oid <= d.oid

\* C22: after the top-level parse returns, every reference node whose name has
\* definitions in the document carries the target and title of the definition
\* of that name parsed last, wherever the reference stands.
C22_LastDefinitionWins ==
    out.ret =>
        \A r \in RefNodes :
            DefsNamed(r) # {} =>
                /\ heap[r.oid].target = heap[LastDef(r).oid].target
                /\ heap[r.oid].title = heap[LastDef(r).oid].title

\* A returned document with two definitions of one name that differ and three
\* references to it: one built before the first definition, one between the
\* two and one after the last
C22_Witness ==
    /\ out.ret
    /\ \E d1 \in DefNodes, d2 \in DefNodes :
          /\ NameOf(d1) = NameOf(d2)
          /\ heap[d1.oid].target # heap[d2.oid].target
          /\ \E r0 \in RefNodes, r1 \in RefNodes, r2 \in RefNodes :
                /\ NameOf(r0) = NameOf(d1) /\ NameOf(r1) = NameOf(d1) /\ NameOf(r2) = NameOf(d1)
                /\ r0.oid < d1.oid /\ d1.oid < r1.oid
                /\ r1.oid < d2.oid /\ d2.oid < r2.oid
                /\ heap[r0.oid].target = heap[d2.oid].target
                /\ heap[r1.oid].target = heap[d2.oid].target

====
